---- MODULE Spec2Model ----
(***************************************************************************)
(* The USA Hockey registration dashboard (streamlit_app.py) as a state     *)
(* machine: one session of the script.  The CSV file is the immutable      *)
(* input; every widget change re-runs the script from the top:             *)
(* get_registration_data (cached) -> slider / multiselect -> filter ->     *)
(* metric loop -> map.                                                     *)
(***************************************************************************)
EXTENDS Integers, Sequences, FiniteSets, TLC

(***************************************************************************)
(* Bounds of the model.                                                    *)
(***************************************************************************)
\* The CSV file holds at most MaxRows data rows.
MaxRows == 2

\* The states that occur in the file.
States == {"MA", "VT"}

\* A cell of the file is a sequence of characters.  A Year cell is a year or
\* not a number; a Total cell is a count (with or without a thousands
\* separator), empty, or not a number.
Y2020 == <<"2", "0", "2", "0">>
Y2024 == <<"2", "0", "2", "4">>
Malformed == <<"a", "b", "c">>
YearCells == {Y2020, Y2024, Malformed}
\* "0", "1,000" (thousands separator), "2500", the empty cell and "abc".
TotalCells == {<<"0">>, <<"1", ",", "0", "0", "0">>, <<"2", "5", "0", "0">>,
               <<>>, Malformed}

RawRows == [State : States, Year : YearCells, Total : TotalCells]

Sources == UNION {[1..n -> RawRows] : n \in 0..MaxRows}

(***************************************************************************)
(* Values of a parsed column.  NaN is pandas' missing value; Unparsed is a  *)
(* cell that no number could be read from.                                 *)
(***************************************************************************)
NaN == 0 - 1
Unparsed == 0 - 2

IsNaN(x) == x = NaN

DigitChars == {"0", "1", "2", "3", "4", "5", "6", "7", "8", "9"}

DigitValue(c) ==
    CASE c = "0" -> 0 [] c = "1" -> 1 [] c = "2" -> 2 [] c = "3" -> 3
      [] c = "4" -> 4 [] c = "5" -> 5 [] c = "6" -> 6 [] c = "7" -> 7
      [] c = "8" -> 8 [] c = "9" -> 9

RECURSIVE DigitsToInt(_)
DigitsToInt(s) ==
    IF s = <<>> THEN 0
    ELSE 10 * DigitsToInt(SubSeq(s, 1, Len(s) - 1)) + DigitValue(s[Len(s)])

IsComma(c) == c = ","
NotComma(c) == ~IsComma(c)

\* pd.read_csv(..., thousands=','): the thousands separator is dropped from a
\* numeric field, an empty field is NaN, anything else is not a number.
ParseCell(cell) ==
    LET stripped == SelectSeq(cell, NotComma)
    IN  IF cell = <<>> THEN NaN
        ELSE IF stripped # <<>> /\ \A i \in 1..Len(stripped) : stripped[i] \in DigitChars
             THEN DigitsToInt(stripped)
             ELSE Unparsed

\* A column read_csv could not convert stays a column of strings, and
\* pd.to_numeric (errors='raise') raises ValueError on the first such string.
ToNumericRaises(src) ==
    \E i \in 1..Len(src) :
        \/ ParseCell(src[i].Year) = Unparsed
        \/ ParseCell(src[i].Total) = Unparsed

\* The frame get_registration_data returns: one record per data row of the
\* file, in file order.
ParseFrame(src) ==
    [i \in 1..Len(src) |->
        [State |-> src[i].State,
         Year  |-> ParseCell(src[i].Year),
         Total |-> ParseCell(src[i].Total)]]

(***************************************************************************)
(* Frames.                                                                 *)
(***************************************************************************)
Range(s) == {s[i] : i \in 1..Len(s)}

SetMin(S) == CHOOSE x \in S : \A y \in S : x <= y
SetMax(S) == CHOOSE x \in S : \A y \in S : y <= x

\* df['Year'].min() / .max(); NaN for an empty frame.
YearMin(df) == IF df = <<>> THEN NaN ELSE SetMin({df[i].Year : i \in 1..Len(df)})
YearMax(df) == IF df = <<>> THEN NaN ELSE SetMax({df[i].Year : i \in 1..Len(df)})

\* df['State'].unique()
UniqueStates(df) == {df[i].State : i \in 1..Len(df)}

\* The Total column is float64 as soon as one cell is missing, int64 otherwise.
TotalIsFloat(df) == \E i \in 1..Len(df) : IsNaN(df[i].Total)

\* The default selection of st.multiselect, and its part within States.
DefaultSelection == <<"MA", "MN", "NY", "NJ", "OH", "IL">>

InStates(s) == s \in States

DefaultStates == SelectSeq(DefaultSelection, InStates)

\* A plausible slip: the upper bound of the range taken as exclusive.
FilterFrameExclusive(df, sel, fy, ty) ==
    LET Keep(r) == /\ r.State \in Range(sel)
                   /\ r.Year < ty
                   /\ fy <= r.Year
    IN  SelectSeq(df, Keep)

\* A plausible slip: an empty selection taken as "no filter on the state".
FilterFrameAllWhenEmpty(df, sel, fy, ty) ==
    LET Keep(r) == /\ (sel = <<>> \/ r.State \in Range(sel))
                   /\ r.Year <= ty
                   /\ fy <= r.Year
    IN  SelectSeq(df, Keep)

\* filtered_df = df[isin(selected_states) & (Year <= to_year) & (from_year <= Year)]
FilterFrame(df, sel, fy, ty) ==
    LET Keep(r) == /\ r.State \in Range(sel)
                   /\ r.Year <= ty
                   /\ fy <= r.Year
    IN  SelectSeq(df, Keep)

\* df[df['Year'] == y]
YearFrame(df, y) ==
    LET AtYear(r) == r.Year = y
    IN  SelectSeq(df, AtYear)

\* frame[df['State'] == state]['Total']
StateTotals(frame, state) ==
    LET OfState(r) == r.State = state
        rows == SelectSeq(frame, OfState)
    IN  [i \in 1..Len(rows) |-> rows[i].Total]

\* first_reg = first_year[df['State'] == state]['Total'].iat[0]
FirstReg(first_year, state) == StateTotals(first_year, state)[1]

\* A plausible slip: the last matching row instead of the first.
LastRegOfLastRow(last_year, state) ==
    StateTotals(last_year, state)[Len(StateTotals(last_year, state))]

\* last_reg = last_year[df['State'] == state]['Total'].iat[0]
LastReg(last_year, state) == StateTotals(last_year, state)[1]

(***************************************************************************)
(* Formatting.                                                             *)
(***************************************************************************)
TwoDigits(n) == IF n < 10 THEN "0" \o ToString(n) ELSE ToString(n)
ThreeDigits(n) == IF n < 100 THEN "0" \o TwoDigits(n) ELSE ToString(n)

\* The ',' option of the format spec: groups of three digits.
RECURSIVE GroupThousands(_)
GroupThousands(n) ==
    IF n < 1000 THEN ToString(n)
    ELSE GroupThousands(n \div 1000) \o "," \o ThreeDigits(n % 1000)

\* f'{num / den:,.2f}' for numpy scalars: true division, so a zero divisor
\* gives inf (nan for 0/0) and a NaN operand gives nan.  A finite quotient is
\* rounded to hundredths (no quotient of the model's totals is a tie).
FormatQuotient(num, den) ==
    IF IsNaN(num) \/ IsNaN(den) THEN "nan"
    ELSE IF den = 0
         THEN (IF num = 0 THEN "nan" ELSE "inf")
         ELSE LET h == (200 * num + den) \div (2 * den)
              IN  GroupThousands(h \div 100) \o "." \o TwoDigits(h % 100)

\* A plausible slip: the quotient taken the other way round.
FormatGrowthInverted(last_reg, first_reg) ==
    FormatQuotient(first_reg, last_reg) \o "x"

\* growth = f'{last_reg / first_reg:,.2f}x'
FormatGrowth(last_reg, first_reg) ==
    FormatQuotient(last_reg, first_reg) \o "x"

\* f'{last_reg}': an int64 prints as an integer, a float64 with one decimal.
FormatValue(last_reg, isFloat) ==
    IF IsNaN(last_reg) THEN "nan"
    ELSE IF isFloat THEN ToString(last_reg) \o ".0"
    ELSE ToString(last_reg)

\* .iat[0] raises IndexError on an empty selection.
MetricRaises(first_year, last_year, state) ==
    \/ StateTotals(first_year, state) = <<>>
    \/ StateTotals(last_year, state) = <<>>

\* One pass of the body of the metric loop: the st.metric shown for `state`.
Metric(first_year, last_year, state, isFloat) ==
    LET first_reg == FirstReg(first_year, state)
        last_reg  == LastReg(last_year, state)
    IN  [label       |-> state \o " Player Count",
         value       |-> FormatValue(last_reg, isFloat),
         delta       |-> IF IsNaN(first_reg) THEN "n/a"
                         ELSE FormatGrowth(last_reg, first_reg),
         delta_color |-> IF IsNaN(first_reg) THEN "off" ELSE "normal"]

\* for i, state in enumerate(selected_states): the metrics shown, in order,
\* up to the first state whose lookup raises.
RECURSIVE MetricLoop(_, _, _, _, _)
MetricLoop(first_year, last_year, sel, isFloat, shown) ==
    IF sel = <<>> THEN [metrics |-> shown, raised |-> FALSE]
    ELSE IF MetricRaises(first_year, last_year, Head(sel))
         THEN [metrics |-> shown, raised |-> TRUE]
         ELSE MetricLoop(first_year, last_year, Tail(sel), isFloat,
                         Append(shown, Metric(first_year, last_year, Head(sel), isFloat)))

(***************************************************************************)
(* State.                                                                  *)
(***************************************************************************)
VARIABLES
    source,           \* the rows of data/registration_by_state.csv
    cache,            \* st.cache_data: <<>> or <<frame>>
    reads,            \* how many times the file was read and parsed
    slider,           \* the slider's session value: <<>> or <<from, to>>
    multiselect,      \* the multiselect's session value: <<>> or <<selection>>
    pc,               \* position of the script
    df,               \* the script's df
    from_year, to_year,
    selected_states,
    filtered_df,
    first_year, last_year,
    metrics           \* the st.metric widgets shown by this run

vars == <<source, cache, reads, slider, multiselect, pc, df, from_year, to_year,
          selected_states, filtered_df, first_year, last_year, metrics>>

script == <<df, from_year, to_year, selected_states, filtered_df, first_year,
            last_year, metrics>>

Init ==
    /\ source \in Sources
    /\ cache = <<>>
    /\ reads = 0
    /\ slider = <<>>
    /\ multiselect = <<>>
    /\ pc = "start"
    /\ df = <<>>
    /\ from_year = NaN
    /\ to_year = NaN
    /\ selected_states = <<>>
    /\ filtered_df = <<>>
    /\ first_year = <<>>
    /\ last_year = <<>>
    /\ metrics = <<>>

\* A plausible slip: the @st.cache_data decorator left out.
CacheMissAlways == TRUE

\* The body of get_registration_data is run on a cache miss only; a call
\* that raises stores nothing.
CacheMiss == cache = <<>>

\* df = get_registration_data()
GetRegistrationData ==
    /\ pc = "start"
    /\ IF CacheMiss
       THEN /\ reads' = reads + 1
            /\ IF ToNumericRaises(source)
               THEN /\ pc' = "error_load"
                    /\ UNCHANGED <<cache, df>>
               ELSE /\ cache' = <<ParseFrame(source)>>
                    /\ df' = ParseFrame(source)
                    /\ pc' = "loaded"
       ELSE /\ df' = cache[1]
            /\ pc' = "loaded"
            /\ UNCHANGED <<cache, reads>>
    /\ UNCHANGED <<source, slider, multiselect, from_year, to_year,
                   selected_states, filtered_df, first_year, last_year, metrics>>

\* st.slider and st.multiselect: the session value when the user has set one,
\* the default otherwise.  A default that is not among the options raises.
Widgets ==
    /\ pc = "loaded"
    /\ from_year' = IF slider = <<>> THEN YearMin(df) ELSE slider[1]
    /\ to_year' = IF slider = <<>> THEN YearMax(df) ELSE slider[2]
    /\ IF multiselect = <<>>
       THEN IF Range(DefaultStates) \subseteq UniqueStates(df)
            THEN /\ selected_states' = DefaultStates
                 /\ pc' = "selected"
            ELSE /\ pc' = "error_multiselect"
                 /\ UNCHANGED selected_states
       ELSE /\ selected_states' = multiselect[1]
            /\ pc' = "selected"
    /\ UNCHANGED <<source, cache, reads, slider, multiselect, df, filtered_df,
                   first_year, last_year, metrics>>

\* A plausible slip: the filter assigned to df itself (df = df[...]).
FilterInPlace ==
    /\ pc = "selected"
    /\ filtered_df' = FilterFrame(df, selected_states, from_year, to_year)
    /\ df' = FilterFrame(df, selected_states, from_year, to_year)
    /\ first_year' = YearFrame(df, from_year)
    /\ last_year' = YearFrame(df, to_year)
    /\ pc' = "filtered"
    /\ UNCHANGED <<source, cache, reads, slider, multiselect, from_year,
                   to_year, selected_states, metrics>>

\* filtered_df, the line chart, first_year and last_year.
Filter ==
    /\ pc = "selected"
    /\ filtered_df' = FilterFrame(df, selected_states, from_year, to_year)
    /\ first_year' = YearFrame(df, from_year)
    /\ last_year' = YearFrame(df, to_year)
    /\ pc' = "filtered"
    /\ UNCHANGED <<source, cache, reads, slider, multiselect, df, from_year,
                   to_year, selected_states, metrics>>

\* The metric loop.
Metrics ==
    /\ pc = "filtered"
    /\ LET out == MetricLoop(first_year, last_year, selected_states,
                             TotalIsFloat(df), <<>>)
       IN  /\ metrics' = out.metrics
           /\ pc' = IF out.raised THEN "error_metric" ELSE "metrics"
    /\ UNCHANGED <<source, cache, reads, slider, multiselect, df, from_year,
                   to_year, selected_states, filtered_df, first_year, last_year>>

\* The two charts of the end of the script; LookupData only refers to df.
Map ==
    /\ pc = "metrics"
    /\ pc' = "done"
    /\ UNCHANGED <<source, cache, reads, slider, multiselect, script>>

\* The script's names are bound anew by every run.
Rerun ==
    /\ pc' = "start"
    /\ df' = <<>>
    /\ from_year' = NaN
    /\ to_year' = NaN
    /\ selected_states' = <<>>
    /\ filtered_df' = <<>>
    /\ first_year' = <<>>
    /\ last_year' = <<>>
    /\ metrics' = <<>>
    /\ UNCHANGED <<source, cache, reads>>

\* The user moves the slider (shown once line 88 has run).
SliderChange ==
    /\ pc \in {"done", "error_metric", "error_multiselect"}
    /\ \E fy \in YearMin(cache[1])..YearMax(cache[1]) :
       \E ty \in fy..YearMax(cache[1]) :
          /\ <<fy, ty>> # <<from_year, to_year>>
          /\ slider' = <<fy, ty>>
    /\ UNCHANGED multiselect
    /\ Rerun

\* The selections the multiselect can hold: the options, in the order picked.
Selections(options) ==
    {s \in UNION {[1..n -> options] : n \in 0..Cardinality(options)} :
        \A i, j \in 1..Len(s) : i # j => s[i] # s[j]}

\* The user changes the selected states (shown once line 99 has run).
MultiselectChange ==
    /\ pc \in {"done", "error_metric"}
    /\ \E sel \in Selections(UniqueStates(cache[1])) :
          /\ sel # selected_states
          /\ multiselect' = <<sel>>
    /\ UNCHANGED slider
    /\ Rerun

Next ==
    \/ GetRegistrationData
    \/ Widgets
    \/ Filter
    \/ Metrics
    \/ Map
    \/ SliderChange
    \/ MultiselectChange

Spec == Init /\ [][Next]_vars

(***************************************************************************)
(* Vocabulary of the properties.                                           *)
(***************************************************************************)
\* The positions at which filtered_df has been computed by the current run.
AfterFilter == pc \in {"filtered", "metrics", "error_metric", "done"}

\* The positions at which the metric loop has run (and possibly raised).
AfterMetrics == pc \in {"metrics", "error_metric", "done"}

\* How many rows of frame t equal r.
Count(t, r) == Cardinality({i \in 1..Len(t) : t[i] = r})

InSelection(r) ==
    /\ r.State \in Range(selected_states)
    /\ from_year <= r.Year
    /\ r.Year <= to_year

HasRecord(t, s, y) == \E i \in 1..Len(t) : t[i].State = s /\ t[i].Year = y

\* Total(s, y): the Total of the first row of t for state s and year y.
TotalAt(t, s, y) ==
    LET i == CHOOSE k \in 1..Len(t) :
                 /\ t[k].State = s /\ t[k].Year = y
                 /\ \A j \in 1..(k - 1) : ~(t[j].State = s /\ t[j].Year = y)
    IN  t[i].Total

ValidTotal(x) == ~IsNaN(x) /\ x # 0

\* latest / base to two decimals with the "x" suffix, worked out by hand for
\* the totals that occur in the file.
ExpectedGrowth(latest, base) ==
    CASE latest = 0 -> "0.00x"
      [] latest = base -> "1.00x"
      [] latest = 2500 /\ base = 1000 -> "2.50x"
      [] latest = 1000 /\ base = 2500 -> "0.40x"

SourceHasMalformedCell ==
    \E i \in 1..Len(source) :
        source[i].Year = Malformed \/ source[i].Total = Malformed

(***************************************************************************)
(* C1: a record of the table is in the filtered table if and only if its   *)
(* state is selected and from_year <= year <= to_year (both inclusive);    *)
(* every such record is kept as often as it occurs, unaltered, and nothing *)
(* else is in the filtered table.                                          *)
(***************************************************************************)
C1_FilterIsExact ==
    AfterFilter =>
        \A r \in Range(df) \cup Range(filtered_df) :
            Count(filtered_df, r) = IF InSelection(r) THEN Count(df, r) ELSE 0

\* A run that keeps a record at the upper bound and drops another one.
C1_Witness ==
    /\ AfterFilter
    /\ \E i \in 1..Len(filtered_df) : filtered_df[i].Year = to_year
    /\ Len(filtered_df) < Len(df)
    /\ slider # <<>>

(***************************************************************************)
(* C2: a selected state with no record at from_year or at to_year does not *)
(* crash the metric computation: its growth is "n/a" and every selected    *)
(* state gets its metric.                                                  *)
(***************************************************************************)
C2_MissingRecordIsNotApplicable ==
    AfterMetrics =>
        /\ pc # "error_metric"
        /\ Len(metrics) = Len(selected_states)
        /\ \A i \in 1..Len(selected_states) :
              (\/ ~HasRecord(df, selected_states[i], from_year)
               \/ ~HasRecord(df, selected_states[i], to_year))
              => metrics[i].delta = "n/a"

(***************************************************************************)
(* C3: when the base Total is zero or missing, or the latest Total is      *)
(* missing, the growth shown is "n/a"; no inf or nan ratio is shown.       *)
(***************************************************************************)
C3_UndefinedGrowthIsNotApplicable ==
    AfterMetrics =>
        \A i \in 1..Len(metrics) :
            LET base   == TotalAt(df, selected_states[i], from_year)
                latest == TotalAt(df, selected_states[i], to_year)
            IN  /\ (base = 0 \/ IsNaN(base) \/ IsNaN(latest))
                       => metrics[i].delta = "n/a"
                /\ metrics[i].delta \notin {"infx", "nanx"}

(***************************************************************************)
(* C4: with an empty selection the run raises no error, the filtered table *)
(* is empty and no metric is shown.                                        *)
(***************************************************************************)
C4_EmptySelection ==
    (multiselect = << <<>> >> /\ pc # "start") =>
        /\ pc \notin {"error_load", "error_multiselect", "error_metric"}
        /\ AfterFilter => filtered_df = <<>>
        /\ metrics = <<>>

\* A finished run over a non-empty table with nothing selected.
C4_Witness ==
    /\ multiselect = << <<>> >>
    /\ pc = "done"
    /\ Len(df) = MaxRows
    /\ filtered_df = <<>>

C7_OneRecordPerStateYear ==
    cache # <<>> =>
        \A i, j \in 1..Len(cache[1]) :
            (cache[1][i].State = cache[1][j].State /\ cache[1][i].Year = cache[1][j].Year)
            => i = j

(***************************************************************************)
(* C8: a Year or Total cell that is not numeric does not abort the load:   *)
(* the cell is loaded as missing (not as zero) and every other row keeps   *)
(* its Total.                                                              *)
(***************************************************************************)
C8_MalformedCellIsMissing ==
    (pc # "start" /\ SourceHasMalformedCell) =>
        /\ pc # "error_load"
        /\ cache # <<>>
        /\ Len(cache[1]) = Len(source)
        /\ \A i \in 1..Len(source) :
              /\ cache[1][i].State = source[i].State
              /\ cache[1][i].Year = IF source[i].Year = Malformed THEN NaN
                                    ELSE ParseCell(source[i].Year)
              /\ cache[1][i].Total = IF source[i].Total = Malformed THEN NaN
                                     ELSE ParseCell(source[i].Total)

(***************************************************************************)
(* C9: over any sequence of slider and multiselect changes the file is     *)
(* read and parsed at most once; once the cache is filled no later run     *)
(* reads the file, and the frame a run works on is the cached one.         *)
(***************************************************************************)
C9_ReadAtMostOnce ==
    /\ reads <= 1
    /\ cache # <<>> => reads = 1
    /\ pc \notin {"start", "error_load"} => (cache # <<>> /\ df = cache[1])

\* A re-run after a widget change that was served from the cache.
C9_Witness ==
    /\ reads = 1
    /\ multiselect # <<>>
    /\ pc = "loaded"
    /\ df # <<>>

(***************************************************************************)
(* C10: no step of a run and no widget change alters the loaded table: the *)
(* file and the cached frame never change, the df of a run stays the       *)
(* cached frame from the load to the end of the run.                       *)
(***************************************************************************)
C10_TableIsReadOnly ==
    [][ /\ source' = source
        /\ cache # <<>> => cache' = cache
        /\ (pc # "start" /\ pc' # "start") => df' = df
        /\ pc' \notin {"start", "error_load"} => df' = cache'[1] ]_vars

\* A finished run after both widgets were changed, over the unchanged table.
C10_Witness ==
    /\ pc = "done"
    /\ slider # <<>>
    /\ multiselect # <<>>
    /\ df = cache[1]
    /\ df = ParseFrame(source)
    /\ Len(filtered_df) < Len(df)

====
